---- MODULE Spec2Model ----
(***************************************************************************)
(* Model of the injection Context of input-remapper                        *)
(* (src/inputremapper/injection/context.py) and of the device grouping of  *)
(* key-mapper (src/keymapper/linux.py).                                    *)
(*                                                                         *)
(* Six specifications share the variables below; each one drives the       *)
(* variables of one part of the program and leaves the others idle:        *)
(*   SpecExpand    Key.get_permutations as used by the table builders      *)
(*   SpecTables    Context._parse_macros and Context._map_keys_to_codes    *)
(*   SpecQuery     Context.is_mapped and Context.writes_keys               *)
(*   SpecJoystick  update_purposes and the three joystick queries          *)
(*   SpecRegistry  update_callbacks and the dispatch over the registry     *)
(*   SpecDevices   _get_devices                                            *)
(***************************************************************************)
EXTENDS Integers, Sequences, FiniteSets, TLC

VARIABLES
    chord,          \* SpecExpand: the Key whose permutations are asked for
    permutations,   \* SpecExpand: list returned by key.get_permutations()
    mapping,        \* Context.mapping: ordered (key, output) entries
    macros,         \* Context.macros attribute
    key_to_code,    \* Context.key_to_code attribute
    ret,            \* value handed back by the most recent method call
    config,         \* joystick purposes stored in the Mapping configuration
    left_purpose,   \* Context.left_purpose
    right_purpose,  \* Context.right_purpose
    _handlers,      \* Context._handlers: ordered dict key -> handler list
    callbacks,      \* Context.callbacks: dict (type, code) -> notify list
    dispatch,       \* the dispatch of one live event over callbacks
    devices,        \* evdev.list_devices(), in enumeration order
    grouped,        \* _get_devices: local dict usb -> [(name, path)]
    result,         \* _get_devices: local dict shortest_name -> group
    pipe,           \* what _get_devices sent through the pipe
    pc              \* _get_devices: position in the function

vars == <<chord, permutations, mapping, macros, key_to_code, ret, config,
          left_purpose, right_purpose, _handlers, callbacks, dispatch,
          devices, grouped, result, pipe, pc>>

expandVars   == <<chord, permutations>>
tableVars    == <<mapping, macros, key_to_code>>
joystickVars == <<config, left_purpose, right_purpose>>
registryVars == <<_handlers, callbacks, dispatch>>
deviceVars   == <<devices, grouped, result, pipe, pc>>

(***************************************************************************)
(* Bounds of the model.                                                    *)
(***************************************************************************)
NumMods     == 2    \* key codes 1..NumMods serve as non-trigger keys
MaxChordLen == 4    \* longest chord handed to get_permutations
MaxEntries  == 2    \* entries of a Mapping

(***************************************************************************)
(* Generic helpers.                                                        *)
(***************************************************************************)
Range(s) == {s[i] : i \in 1..Len(s)}

SeqsUpTo(S, n) == UNION {[1..k -> S] : k \in 0..n}

InjectiveSeqs(S) ==
    {s \in SeqsUpTo(S, Cardinality(S)) :
        \A i, j \in 1..Len(s) : i # j => s[i] # s[j]}

RemoveAt(s, i) == SubSeq(s, 1, i - 1) \o SubSeq(s, i + 1, Len(s))

RECURSIVE Flatten(_)
Flatten(ss) == IF Len(ss) = 0 THEN <<>> ELSE Head(ss) \o Flatten(Tail(ss))

RECURSIVE Factorial(_)
Factorial(n) == IF n <= 1 THEN 1 ELSE n * Factorial(n - 1)

Count(s, x) == Cardinality({i \in 1..Len(s) : s[i] = x})

(***************************************************************************)
(* Event triples (type, code, value) and chords (Key.keys).                *)
(***************************************************************************)
ModTriples == {<<"EV_KEY", c, 1>> : c \in 1..NumMods}

TriggerTriple == <<"EV_KEY", 0, 1>>

Triples == ModTriples \cup {TriggerTriple}

(***************************************************************************)
(* Key.get_permutations: every ordering of the keys before the last one,   *)
(* the last key kept in place; one list element per permutation.           *)
(***************************************************************************)
RECURSIVE Orderings(_)
Orderings(s) ==
    IF Len(s) = 0 THEN << <<>> >>
    ELSE Flatten([i \in 1..Len(s) |->
            LET rest == Orderings(RemoveAt(s, i))
            IN  [j \in 1..Len(rest) |-> <<s[i]>> \o rest[j]]])

get_permutations_first_only(key) == <<key>>

get_permutations(key) ==
    LET front == Orderings(SubSeq(key, 1, Len(key) - 1))
    IN  [i \in 1..Len(front) |-> front[i] \o <<key[Len(key)]>>]

(***************************************************************************)
(* Idle values of the parts a specification does not drive.                *)
(***************************************************************************)
ExpandIdle   == chord = <<>> /\ permutations = <<>>
TablesIdle   == /\ mapping = <<>>
                /\ macros = [assigned |-> FALSE, table |-> <<>>]
                /\ key_to_code = [assigned |-> FALSE, table |-> <<>>]
JoystickIdle == /\ config = [left |-> "none", right |-> "none"]
                /\ left_purpose = "none"
                /\ right_purpose = "none"
RegistryIdle == _handlers = <<>> /\ callbacks = <<>> /\ dispatch = [pc |-> "idle"]
RetIdle      == ret = [op |-> "none"]
DevicesIdle  == /\ devices = <<>>
                /\ grouped = <<>>
                /\ result = <<>>
                /\ pipe = <<>>
                /\ pc = "idle"

(***************************************************************************)
(* SpecExpand: one chord, expanded once.                                   *)
(***************************************************************************)
ExpandChords == SeqsUpTo(Triples, MaxChordLen) \ {<<>>}

InitExpand ==
    /\ chord \in ExpandChords
    /\ permutations = <<>>
    /\ RetIdle
    /\ TablesIdle /\ JoystickIdle /\ RegistryIdle /\ DevicesIdle

Expand ==
    /\ permutations = <<>>
    /\ permutations' = get_permutations(chord)
    /\ UNCHANGED <<chord, ret, tableVars, joystickVars, registryVars, deviceVars>>

NextExpand == Expand

SpecExpand == InitExpand /\ [][NextExpand]_vars

(* The reorderings of the first n-1 triples of a chord, trigger kept last, *)
(* stated without generating them.                                         *)
Reorderings(key) ==
    LET n == Len(key)
        Bijections == {p \in [1..(n - 1) -> 1..(n - 1)] :
                          \A i, j \in 1..(n - 1) : i # j => p[i] # p[j]}
    IN  {[i \in 1..n |-> IF i = n THEN key[n] ELSE key[p[i]]] : p \in Bijections}

\* C2: for a chord of length n >= 1 the expansion yields exactly (n-1)!
\* chords (1 for n = 1), each with the original trigger triple last, and the
\* set yielded is exactly the set of reorderings of the first n-1 triples.
C2_Expansion ==
    permutations # <<>> =>
        /\ Len(permutations) = Factorial(Len(chord) - 1)
        /\ \A i \in 1..Len(permutations) :
              /\ Len(permutations[i]) = Len(chord)
              /\ permutations[i][Len(chord)] = chord[Len(chord)]
        /\ Range(permutations) = Reorderings(chord)

C2_Witness ==
    /\ Len(chord) = 4
    /\ Len(permutations) = 6
    /\ Cardinality(Range(permutations)) = 6

(***************************************************************************)
(* The Mapping and the collaborators the table builders call.              *)
(***************************************************************************)
None == "None"

\* Chords of a Mapping: some of the non-trigger keys in some order, then
\* the trigger.
MappingKeys == {front \o <<TriggerTriple>> : front \in InjectiveSeqs(ModTriples)}

\* output[0]: two known key names, an unknown one, a macro that compiles
\* and a macro that compiles to nothing.  output[1]: the target device.
Outputs == {<<"a", "keyboard">>, <<"b", "gamepad">>, <<"zz", "keyboard">>,
            <<"k(a)", "keyboard">>, <<"k(a).k(", "gamepad">>}

Entries == [key : MappingKeys, output : Outputs]

\* A Mapping holds one output per key, in insertion order.
Mappings ==
    {m \in SeqsUpTo(Entries, MaxEntries) :
        \A i, j \in 1..Len(m) : i # j => m[i].key # m[j].key}

is_this_a_macro(output) == output \in {"k(a)", "k(a).k("}

parse(output) == IF output = "k(a)" THEN "Macro(k(a))" ELSE None

system_mapping_get(name) ==
    CASE name = "a" -> "KEY_A"
      [] name = "b" -> "KEY_B"
      [] OTHER -> None

(***************************************************************************)
(* Python dict operations.                                                 *)
(***************************************************************************)
EmptyDict == <<>>

\* d[k] = v for every k of the list ks
SetItems(d, ks, v) ==
    [k \in DOMAIN d \cup Range(ks) |-> IF k \in Range(ks) THEN v ELSE d[k]]

SetItemsKeepOld(d, ks, v) ==
    [k \in DOMAIN d \cup Range(ks) |-> IF k \in DOMAIN d THEN d[k] ELSE v]

(***************************************************************************)
(* Context._parse_macros                                                   *)
(***************************************************************************)
RECURSIVE parse_macros_loop(_, _, _)
parse_macros_loop(m, i, table) ==
    IF i > Len(m) THEN table
    ELSE LET key == m[i].key
             output == m[i].output
         IN  IF is_this_a_macro(output[1])
             THEN LET macro == parse(output[1])
                  IN  IF macro = None
                      THEN parse_macros_loop(m, i + 1, table)
                      ELSE parse_macros_loop(m, i + 1,
                               SetItems(table, get_permutations(key),
                                        <<macro, output[2]>>))
             ELSE parse_macros_loop(m, i + 1, table)

_parse_macros(m) == parse_macros_loop(m, 1, EmptyDict)

(***************************************************************************)
(* Context._map_keys_to_codes.  The test of the trigger's value (lines     *)
(* 157-161) only logs; the permutation is inserted either way.             *)
(***************************************************************************)
RECURSIVE map_keys_loop(_, _, _)
map_keys_loop(m, i, table) ==
    IF i > Len(m) THEN table
    ELSE LET key == m[i].key
             output == m[i].output
         IN  IF is_this_a_macro(output[1])
             THEN map_keys_loop(m, i + 1, table)
             ELSE LET target_code == system_mapping_get(output[1])
                  IN  IF target_code = None
                      THEN map_keys_loop(m, i + 1, table)
                      ELSE map_keys_loop(m, i + 1,
                               SetItems(table, get_permutations(key),
                                        <<target_code, output[2]>>))

RECURSIVE map_keys_loop_first_wins(_, _, _)
map_keys_loop_first_wins(m, i, table) ==
    IF i > Len(m) THEN table
    ELSE LET key == m[i].key
             output == m[i].output
         IN  IF is_this_a_macro(output[1])
             THEN map_keys_loop_first_wins(m, i + 1, table)
             ELSE LET target_code == system_mapping_get(output[1])
                  IN  IF target_code = None
                      THEN map_keys_loop_first_wins(m, i + 1, table)
                      ELSE map_keys_loop_first_wins(m, i + 1,
                               SetItemsKeepOld(table, get_permutations(key),
                                               <<target_code, output[2]>>))

_map_keys_to_codes_first_wins(m) == map_keys_loop_first_wins(m, 1, EmptyDict)

_map_keys_to_codes(m) == map_keys_loop(m, 1, EmptyDict)

(***************************************************************************)
(* Context.__init__, as far as the tables go: it stores the mapping and    *)
(* assigns neither self.macros nor self.key_to_code.                       *)
(***************************************************************************)
Unassigned == [assigned |-> FALSE, table |-> EmptyDict]

NotCalled == [called |-> FALSE, table |-> EmptyDict]

Returned(t) == [called |-> TRUE, table |-> t]

NoQuery == [op |-> "none", key |-> <<>>, val |-> None]

ContextInitTables ==
    /\ mapping \in Mappings
    /\ macros = Unassigned
    /\ key_to_code = Unassigned
    /\ ret = [macros |-> NotCalled, key_to_code |-> NotCalled, query |-> NoQuery]

(***************************************************************************)
(* SpecTables: the two table builders called on a constructed Context.     *)
(***************************************************************************)
InitTables ==
    /\ ContextInitTables
    /\ ExpandIdle /\ JoystickIdle /\ RegistryIdle /\ DevicesIdle

ParseMacros ==
    /\ ~ret.macros.called
    /\ ret' = [ret EXCEPT !.macros = Returned(_parse_macros(mapping))]
    /\ UNCHANGED <<mapping, macros, key_to_code>>
    /\ UNCHANGED <<expandVars, joystickVars, registryVars, deviceVars>>

MapKeysToCodes ==
    /\ ~ret.key_to_code.called
    /\ ret' = [ret EXCEPT !.key_to_code = Returned(_map_keys_to_codes(mapping))]
    /\ UNCHANGED <<mapping, macros, key_to_code>>
    /\ UNCHANGED <<expandVars, joystickVars, registryVars, deviceVars>>

NextTables == ParseMacros \/ MapKeysToCodes

SpecTables == InitTables /\ [][NextTables]_vars

(***************************************************************************)
(* What a Mapping asks for, stated from its entries.                       *)
(***************************************************************************)
IsDirect(e) == ~is_this_a_macro(e.output[1])

Resolvable(e) ==
    IF is_this_a_macro(e.output[1])
    THEN parse(e.output[1]) # None
    ELSE system_mapping_get(e.output[1]) # None

ResolvedOutput(e) ==
    IF is_this_a_macro(e.output[1])
    THEN <<parse(e.output[1]), e.output[2]>>
    ELSE <<system_mapping_get(e.output[1]), e.output[2]>>

DirectEntries(m) == {i \in 1..Len(m) : IsDirect(m[i]) /\ Resolvable(m[i])}

MacroEntries(m) == {i \in 1..Len(m) : ~IsDirect(m[i]) /\ Resolvable(m[i])}

SkippedEntries(m) == {i \in 1..Len(m) : ~Resolvable(m[i])}

Max(S) == CHOOSE x \in S : \A y \in S : y <= x

\* the reorderings of every chord a Mapping can hold
MappingReorderings == [k \in MappingKeys |-> Reorderings(k)]

\* A table holds exactly the permutations of the entries idx, each with the
\* output of the last of those entries that has it as a permutation.
LastWins(m, idx, table) ==
    LET perms == [i \in 1..Len(m) |-> MappingReorderings[m[i].key]]
    IN  /\ DOMAIN table = UNION {perms[i] : i \in idx}
        /\ \A k \in DOMAIN table :
              table[k] = ResolvedOutput(m[Max({i \in idx : k \in perms[i]})])

\* Every entry of idx has all its permutations in the table with its own
\* output, and the table has no other key.
OwnOutput(m, idx, table) ==
    LET perms == [i \in 1..Len(m) |-> MappingReorderings[m[i].key]]
    IN  /\ DOMAIN table \subseteq UNION {perms[i] : i \in idx}
        /\ \A i \in idx : \A k \in perms[i] :
              k \in DOMAIN table /\ table[k] = ResolvedOutput(m[i])

\* C3: once both tables are built, no chord is a key of both of them.
C3_Disjoint ==
    (ret.macros.called /\ ret.key_to_code.called) =>
        DOMAIN ret.macros.table \cap DOMAIN ret.key_to_code.table = {}

\* C9 as stated: entries with an unknown key name or a macro that compiles
\* to nothing contribute no key, and every other entry has all its
\* permutations in its table with its own resolved output and target.
C9_OwnOutput ==
    /\ ret.macros.called =>
          OwnOutput(mapping, MacroEntries(mapping), ret.macros.table)
    /\ ret.key_to_code.called =>
          OwnOutput(mapping, DirectEntries(mapping), ret.key_to_code.table)

\* C9 amended: entries that do not resolve contribute no key and do not stop
\* the build; each table holds exactly the permutations of the resolvable
\* entries of its kind, and a chord that is a permutation of several of them
\* carries the output and target of the last such entry in Mapping order.
C9_PartialSuccess ==
    /\ ret.macros.called =>
          LastWins(mapping, MacroEntries(mapping), ret.macros.table)
    /\ ret.key_to_code.called =>
          LastWins(mapping, DirectEntries(mapping), ret.key_to_code.table)

C9_Witness ==
    /\ ret.macros.called
    /\ ret.key_to_code.called
    /\ SkippedEntries(mapping) # {}
    /\ \E i \in DirectEntries(mapping) :
          /\ Len(mapping[i].key) = 3
          /\ Cardinality(DOMAIN ret.key_to_code.table) = 2
          /\ \A k \in DOMAIN ret.key_to_code.table :
                ret.key_to_code.table[k] = ResolvedOutput(mapping[i])

(***************************************************************************)
(* Context.is_mapped and Context.writes_keys.  Reading an attribute that   *)
(* __init__ never assigned raises AttributeError.                          *)
(***************************************************************************)
PyBool(b) == IF b THEN "True" ELSE "False"

is_mapped(key) ==
    IF ~macros.assigned THEN "AttributeError"
    ELSE IF key \in DOMAIN macros.table THEN "True"
    ELSE IF ~key_to_code.assigned THEN "AttributeError"
    ELSE PyBool(key \in DOMAIN key_to_code.table)

writes_keys ==
    IF ~macros.assigned THEN "AttributeError"
    ELSE IF ~(Cardinality(DOMAIN macros.table) > 0) THEN "False"
    ELSE IF ~key_to_code.assigned THEN "AttributeError"
    ELSE PyBool(Cardinality(DOMAIN key_to_code.table) > 0)

(***************************************************************************)
(* SpecQuery: the membership queries on a constructed Context.             *)
(***************************************************************************)
QueryKeys == MappingKeys \cup {<<t>> : t \in ModTriples}

InitQuery ==
    /\ ContextInitTables
    /\ ExpandIdle /\ JoystickIdle /\ RegistryIdle /\ DevicesIdle

IsMapped ==
    \E key \in QueryKeys :
        /\ ret' = [ret EXCEPT !.query =
                      [op |-> "is_mapped", key |-> key, val |-> is_mapped(key)]]
        /\ UNCHANGED <<mapping, macros, key_to_code>>
        /\ UNCHANGED <<expandVars, joystickVars, registryVars, deviceVars>>

WritesKeys ==
    /\ ret' = [ret EXCEPT !.query =
                  [op |-> "writes_keys", key |-> <<>>, val |-> writes_keys]]
    /\ UNCHANGED <<mapping, macros, key_to_code>>
    /\ UNCHANGED <<expandVars, joystickVars, registryVars, deviceVars>>

NextQuery == IsMapped \/ WritesKeys

SpecQuery == InitQuery /\ [][NextQuery]_vars

\* the chords the Mapping configures with a resolvable output, and their
\* permutations
ConfiguredChords(m) ==
    UNION {MappingReorderings[m[i].key] :
              i \in DirectEntries(m) \cup MacroEntries(m)}

\* C1: on a constructed Context is_mapped(c) returns true for every chord
\* configured with a resolvable output and for every permutation of it, and
\* false for every other chord.
C1_IsMapped ==
    ret.query.op = "is_mapped" =>
        ret.query.val = PyBool(ret.query.key \in ConfiguredChords(mapping))

\* C5: on a constructed Context writes_keys() returns true iff both tables
\* are non-empty; with direct mappings only, or macros only, it returns
\* false and does not fail.
C5_WritesKeys ==
    ret.query.op = "writes_keys" =>
        ret.query.val = PyBool(/\ MacroEntries(mapping) # {}
                               /\ DirectEntries(mapping) # {})

(***************************************************************************)
(* Joystick purposes: the values of inputremapper.config and the cached    *)
(* fields of the Context.                                                  *)
(***************************************************************************)
NONE == "none"

MOUSE == "mouse"

WHEEL == "wheel"

BUTTONS == "buttons"

Purposes == {NONE, MOUSE, WHEEL, BUTTONS}

maps_joystick == <<left_purpose, right_purpose>> # <<NONE, NONE>>

joystick_as_mouse_only_motion ==
    MOUSE \in {left_purpose, right_purpose}

joystick_as_mouse ==
    LET purposes == {left_purpose, right_purpose}
    IN  MOUSE \in purposes \/ WHEEL \in purposes

joystick_as_dpad ==
    LET purposes == {left_purpose, right_purpose}
    IN  BUTTONS \in purposes

(***************************************************************************)
(* SpecJoystick: a constructed Context whose Mapping configuration may be  *)
(* changed and read again with update_purposes.                            *)
(***************************************************************************)
InitJoystick ==
    /\ config \in [left : Purposes, right : Purposes]
    /\ left_purpose = config.left
    /\ right_purpose = config.right
    /\ RetIdle
    /\ ExpandIdle /\ TablesIdle /\ RegistryIdle /\ DevicesIdle

\* Mapping.set("gamepad.joystick.<side>_purpose", value)
MappingSet ==
    \E side \in {"left", "right"}, value \in Purposes :
        /\ config[side] # value
        /\ config' = [config EXCEPT ![side] = value]
        /\ UNCHANGED <<left_purpose, right_purpose, ret>>
        /\ UNCHANGED <<expandVars, tableVars, registryVars, deviceVars>>

update_purposes ==
    /\ left_purpose' = config.left
    /\ right_purpose' = config.right
    /\ ret' = [op |-> "update_purposes", val |-> None]
    /\ UNCHANGED config
    /\ UNCHANGED <<expandVars, tableVars, registryVars, deviceVars>>

JoystickReturn(op, val) ==
    /\ ret' = [op |-> op, val |-> PyBool(val)]
    /\ UNCHANGED <<config, left_purpose, right_purpose>>
    /\ UNCHANGED <<expandVars, tableVars, registryVars, deviceVars>>

MapsJoystick == JoystickReturn("maps_joystick", maps_joystick)

JoystickAsMouse == JoystickReturn("joystick_as_mouse", joystick_as_mouse)

JoystickAsDpad == JoystickReturn("joystick_as_dpad", joystick_as_dpad)

NextJoystick ==
    \/ MappingSet
    \/ update_purposes
    \/ MapsJoystick
    \/ JoystickAsMouse
    \/ JoystickAsDpad

SpecJoystick == InitJoystick /\ [][NextJoystick]_vars

\* C6: for all 16 combinations of the two purposes, maps_joystick() is false
\* iff both are none, joystick_as_mouse() is true iff one of them is mouse or
\* wheel, joystick_as_dpad() is true iff one of them is buttons, and
\* maps_joystick() equals joystick_as_mouse() or joystick_as_dpad().
C6_JoystickQueries ==
    LET bothNone == left_purpose = NONE /\ right_purpose = NONE
        anyMouse == \/ left_purpose = MOUSE \/ left_purpose = WHEEL
                    \/ right_purpose = MOUSE \/ right_purpose = WHEEL
        anyDpad  == left_purpose = BUTTONS \/ right_purpose = BUTTONS
    IN  /\ ret.op = "maps_joystick" => (ret.val = "False" <=> bothNone)
        /\ ret.op = "joystick_as_mouse" => (ret.val = "True" <=> anyMouse)
        /\ ret.op = "joystick_as_dpad" => (ret.val = "True" <=> anyDpad)
        /\ ret.op \in {"maps_joystick", "joystick_as_mouse", "joystick_as_dpad"}
              => ret.val \in {"True", "False"}
        /\ maps_joystick <=> (joystick_as_mouse \/ joystick_as_dpad)

C6_Witness ==
    /\ left_purpose = NONE
    /\ right_purpose = WHEEL
    /\ ret = [op |-> "joystick_as_mouse", val |-> "True"]

(***************************************************************************)
(* The handlers parse_mapping hands to the Context: an ordered dict from   *)
(* the trigger triple (type, code, value) to the handlers of the chords it *)
(* completes, the handlers of longer chords first.                         *)
(***************************************************************************)
MaxKeys     == 2    \* keys of _handlers
MaxHandlers == 2    \* handlers under one key

HandlerKeys == {<<"EV_ABS", c, v>> : c \in {16, 17}, v \in {1, -1}}

\* numbers of keys of the chords under one trigger, longest first
ChordLengths ==
    {ls \in SeqsUpTo(1..2, MaxHandlers) :
        /\ Len(ls) >= 1
        /\ \A i \in 1..(Len(ls) - 1) : ls[i] >= ls[i + 1]}

HandlerLists(key) ==
    {[i \in 1..Len(ls) |-> [id |-> <<key, i>>, len |-> ls[i]]] : ls \in ChordLengths}

HandlerItems == UNION {[key : {k}, handlers : HandlerLists(k)] : k \in HandlerKeys}

parse_mapping ==
    {hs \in SeqsUpTo(HandlerItems, MaxKeys) :
        \A i, j \in 1..Len(hs) : i # j => hs[i].key # hs[j].key}

(***************************************************************************)
(* Context.update_callbacks                                                *)
(***************************************************************************)
\* key[:2]
TypeAndCode(key) == SubSeq(key, 1, 2)

SetItem(d, k, v) == [x \in DOMAIN d \cup {k} |-> IF x = k THEN v ELSE d[x]]

RECURSIVE prepend_notify(_, _, _)
prepend_notify(list, handler_list, j) ==
    IF j > Len(handler_list) THEN list
    ELSE prepend_notify(<<handler_list[j]>> \o list, handler_list, j + 1)

\* for handler in handler_list: self.callbacks[key[:2]].append(handler.notify)
RECURSIVE append_notify(_, _, _)
append_notify(list, handler_list, j) ==
    IF j > Len(handler_list) THEN list
    ELSE append_notify(Append(list, handler_list[j]), handler_list, j + 1)

RECURSIVE update_callbacks_loop(_, _, _)
update_callbacks_loop(cb, hs, i) ==
    IF i > Len(hs) THEN cb
    ELSE LET key == hs[i].key
             emptied == SetItem(cb, TypeAndCode(key), <<>>)
             filled == SetItem(emptied, TypeAndCode(key),
                               append_notify(emptied[TypeAndCode(key)],
                                             hs[i].handlers, 1))
         IN  update_callbacks_loop(filled, hs, i + 1)

update_callbacks(cb, hs) == update_callbacks_loop(cb, hs, 1)

(***************************************************************************)
(* SpecRegistry: the end of Context.__init__ (callbacks = {}, _handlers    *)
(* set, update_callbacks about to run) and the dispatch of live events     *)
(* over the finished registry.                                             *)
(***************************************************************************)
Events == {<<"EV_ABS", c, 1>> : c \in {16, 17}} \cup {<<"EV_KEY", 44, 1>>}

InitRegistry ==
    /\ _handlers \in parse_mapping
    /\ callbacks = EmptyDict
    /\ dispatch = [pc |-> "constructing"]
    /\ RetIdle
    /\ ExpandIdle /\ TablesIdle /\ JoystickIdle /\ DevicesIdle

UpdateCallbacks ==
    /\ dispatch.pc = "constructing"
    /\ callbacks' = update_callbacks(callbacks, _handlers)
    /\ dispatch' = [pc |-> "ready"]
    /\ UNCHANGED <<_handlers, ret>>
    /\ UNCHANGED <<expandVars, tableVars, joystickVars, deviceVars>>

Registered(event) ==
    IF TypeAndCode(event) \in DOMAIN callbacks
    THEN callbacks[TypeAndCode(event)]
    ELSE <<>>

Handled(results) == \E i \in 1..Len(results) : results[i]

\* a live event arrives; nothing is invoked or forwarded yet
DispatchEvent ==
    /\ dispatch.pc \in {"ready", "done"}
    /\ \E event \in Events :
          dispatch' = [pc |-> "calling", event |-> event, invoked |-> <<>>,
                       results |-> <<>>, forwarded |-> FALSE]
    /\ UNCHANGED <<_handlers, callbacks, ret>>
    /\ UNCHANGED <<expandVars, tableVars, joystickVars, deviceVars>>

MayInvokeNextRegardless(d) == Len(d.invoked) < Len(Registered(d.event))

\* the chain goes on while callbacks are left and none has reported handled
MayInvokeNext(d) ==
    /\ Len(d.invoked) < Len(Registered(d.event))
    /\ ~Handled(d.results)

\* the next callback of the list is invoked and reports handled or not
InvokeCallback ==
    /\ dispatch.pc = "calling"
    /\ MayInvokeNext(dispatch)
    /\ \E handled \in BOOLEAN :
          dispatch' = [dispatch EXCEPT
                          !.invoked = Append(@, Registered(dispatch.event)
                                                    [Len(dispatch.invoked) + 1].id),
                          !.results = Append(@, handled)]
    /\ UNCHANGED <<_handlers, callbacks, ret>>
    /\ UNCHANGED <<expandVars, tableVars, joystickVars, deviceVars>>

\* the chain is over: the raw event is forwarded unless a callback handled it
FinishDispatch ==
    /\ dispatch.pc = "calling"
    /\ ~MayInvokeNext(dispatch)
    /\ dispatch' = [dispatch EXCEPT !.pc = "done",
                                    !.forwarded = ~Handled(dispatch.results)]
    /\ UNCHANGED <<_handlers, callbacks, ret>>
    /\ UNCHANGED <<expandVars, tableVars, joystickVars, deviceVars>>

NextRegistry ==
    \/ UpdateCallbacks
    \/ DispatchEvent
    \/ InvokeCallback
    \/ FinishDispatch

SpecRegistry == InitRegistry /\ [][NextRegistry]_vars

\* C4: the callbacks of the event's (type, code) are invoked in registry
\* order, none is invoked after the first that reports handled, and the
\* dispatcher forwards the raw event iff no callback reported handled.
C4_ShortCircuit ==
    dispatch.pc \in {"calling", "done"} =>
        LET list == Registered(dispatch.event)
            n == Len(dispatch.invoked)
        IN  /\ n <= Len(list)
            /\ Len(dispatch.results) = n
            /\ \A i \in 1..n : dispatch.invoked[i] = list[i].id
            /\ \A i \in 1..(n - 1) : ~dispatch.results[i]
            /\ dispatch.pc = "calling" => ~dispatch.forwarded
            /\ dispatch.pc = "done" =>
                  /\ dispatch.forwarded <=> ~Handled(dispatch.results)
                  /\ dispatch.forwarded => n = Len(list)
                  /\ ~dispatch.forwarded => dispatch.results[n]

C4_Witness ==
    /\ dispatch.pc = "done"
    /\ Len(Registered(dispatch.event)) = 2
    /\ dispatch.results = <<TRUE>>
    /\ ~dispatch.forwarded

\* C7: after registry construction the list of a (type, code) holds the
\* notify callback of every handler registered under any key with that
\* (type, code), whatever the key's value; none is lost.
C7_NoneLost ==
    dispatch.pc # "constructing" =>
        \A i \in 1..Len(_handlers) :
            /\ TypeAndCode(_handlers[i].key) \in DOMAIN callbacks
            /\ Range(_handlers[i].handlers) \subseteq
                  Range(callbacks[TypeAndCode(_handlers[i].key)])

MaxDevices == 3    \* device nodes evdev.list_devices() returns

DeviceNames == {"kb", "kb consumer control", "ms"}

DevicePhys == {<<"usb-3">>, <<"usb-3", "/", "input0">>,
               <<"usb-4", "/", "input0">>, <<"usb-4", "/", "input1">>}

DeviceCapabilities == {{"EV_SYN", "EV_KEY"}, {"EV_SYN", "EV_REL"}}

DeviceInfos == [name : DeviceNames, phys : DevicePhys, capabilities : DeviceCapabilities]

\* evdev.InputDevice(path) for path in evdev.list_devices(): every node has
\* a path of its own
InputDevices ==
    {[i \in 1..Len(infos) |->
        [name |-> infos[i].name, phys |-> infos[i].phys,
         capabilities |-> infos[i].capabilities,
         path |-> <<"/dev/input/event", i>>]] :
     infos \in SeqsUpTo(DeviceInfos, MaxDevices)}

\* phys.split('/')[0]
RECURSIVE SplitFirst(_)
SplitFirst(phys) ==
    IF Len(phys) = 0 \/ Head(phys) = "/" THEN <<>>
    ELSE <<Head(phys)>> \o SplitFirst(Tail(phys))

\* index of the entry of the ordered dict d with key k, 0 if there is none
RECURSIVE IndexOfKey(_, _, _)
IndexOfKey(d, k, i) ==
    IF i > Len(d) THEN 0
    ELSE IF d[i].usb = k THEN i
    ELSE IndexOfKey(d, k, i + 1)

\* sorted(names, key=len)[0]: the first of the names of least length
ShortestName(names) ==
    LET shortest == CHOOSE i \in 1..Len(names) :
            /\ \A j \in 1..Len(names) : Len(names[i]) <= Len(names[j])
            /\ \A j \in 1..(i - 1) : Len(names[j]) > Len(names[i])
    IN  names[shortest]

(***************************************************************************)
(* SpecDevices: _get_devices, one loop iteration per step.                 *)
(***************************************************************************)
InitDevices ==
    /\ devices \in InputDevices
    /\ grouped = <<>>
    /\ result = EmptyDict
    /\ pipe = <<>>
    /\ pc = [at |-> "group", i |-> 1]
    /\ RetIdle
    /\ ExpandIdle /\ TablesIdle /\ JoystickIdle /\ RegistryIdle

\* one iteration of "for device in devices"
GroupDevice ==
    /\ pc.at = "group"
    /\ pc.i <= Len(devices)
    /\ LET device == devices[pc.i]
           usb == SplitFirst(device.phys)
           at == IndexOfKey(grouped, usb, 1)
           entry == <<device.name, device.path>>
       IN  grouped' =
             IF "EV_KEY" \notin device.capabilities THEN grouped
             ELSE IF at = 0
                  THEN Append(grouped, [usb |-> usb, group |-> <<entry>>])
                  ELSE [grouped EXCEPT ![at].group = Append(@, entry)]
    /\ pc' = [pc EXCEPT !.i = @ + 1]
    /\ UNCHANGED <<devices, result, pipe, ret>>
    /\ UNCHANGED <<expandVars, tableVars, joystickVars, registryVars>>

\* the first loop is over, the second one starts
StartWriting ==
    /\ pc.at = "group"
    /\ pc.i > Len(devices)
    /\ pc' = [at |-> "write", i |-> 1]
    /\ UNCHANGED <<devices, grouped, result, pipe, ret>>
    /\ UNCHANGED <<expandVars, tableVars, joystickVars, registryVars>>

\* one iteration of "for group in grouped.values()"
WriteGroup ==
    /\ pc.at = "write"
    /\ pc.i <= Len(grouped)
    /\ LET group == grouped[pc.i].group
           names == [j \in 1..Len(group) |-> group[j][1]]
           devs == [j \in 1..Len(group) |-> group[j][2]]
           shortest_name == ShortestName(names)
       IN  result' = SetItem(result, shortest_name,
                             [paths |-> devs, devices |-> names])
    /\ pc' = [pc EXCEPT !.i = @ + 1]
    /\ UNCHANGED <<devices, grouped, pipe, ret>>
    /\ UNCHANGED <<expandVars, tableVars, joystickVars, registryVars>>

\* pipe.send(result)
SendResult ==
    /\ pc.at = "write"
    /\ pc.i > Len(grouped)
    /\ pipe' = <<result>>
    /\ pc' = [at |-> "done", i |-> 0]
    /\ UNCHANGED <<devices, grouped, result, ret>>
    /\ UNCHANGED <<expandVars, tableVars, joystickVars, registryVars>>

NextDevices == GroupDevice \/ StartWriting \/ WriteGroup \/ SendResult

SpecDevices == InitDevices /\ [][NextDevices]_vars

HasKeys(d) == "EV_KEY" \in d.capabilities

\* the keys of the sent result whose entry lists the device's path
EntriesOf(sent, d) == {k \in DOMAIN sent : d.path \in Range(sent[k].paths)}

\* C10: every device with EV_KEY has its path and name in exactly one entry
\* of the result, devices are in the same entry iff they are on the same
\* port, every entry is keyed by a shortest name of its group, and devices
\* without EV_KEY are in no entry.
C10_GroupedByPort ==
    pc.at = "done" =>
        LET sent == pipe[1]
            all == Range(devices)
        IN  /\ \A d \in all :
                  IF HasKeys(d)
                  THEN /\ Cardinality(EntriesOf(sent, d)) = 1
                       /\ \A k \in EntriesOf(sent, d) :
                             d.name \in Range(sent[k].devices)
                  ELSE EntriesOf(sent, d) = {}
            /\ \A d, e \in all :
                  (HasKeys(d) /\ HasKeys(e)) =>
                      (SplitFirst(d.phys) = SplitFirst(e.phys)
                          <=> EntriesOf(sent, d) = EntriesOf(sent, e))
            /\ \A k \in DOMAIN sent :
                  /\ k \in Range(sent[k].devices)
                  /\ \A j \in 1..Len(sent[k].devices) :
                        Len(k) <= Len(sent[k].devices[j])

====
